---- MODULE Spec2Model ----
(***************************************************************************)
(* A model of cached-eth-rpc (src/src/main.rs): the rpc_call handler, the  *)
(* read_cache helper, the chain registry built by main, and the shared     *)
(* Redis store.  One client call is a sequence of steps: Receive (chain    *)
(* lookup and body normalisation), one Classify step per request (the      *)
(* first loop, with its store read), CallUpstream (the single upstream     *)
(* batch), one Reconcile step per element of the upstream response (the    *)
(* second loop, with its store write), Assemble and Return.                *)
(***************************************************************************)
EXTENDS Integers, Sequences, FiniteSets, TLC

\* ------------------------------------------------------------------ bounds

\* Largest number of request objects in one client body.
MaxBatch == 2

\* Largest number of elements of an upstream batch response.
MaxResp == 2

\* ---------------------------------------------------------------- universe

\* Handling tasks; the sequential specification runs the first one only.
Calls == {1, 2}

\* Numeric request ids (values for which as_u64 is Some).
Ids == {1, 2}

\* A JSON value of the "id" field for which as_u64() is None.
NoId == -1

\* A JSON value of the "method" field for which as_str() is None.
NoMethod == "<absent>"

\* serde_json::Value, as far as the handler looks at it.
Null == [t |-> "null", v |-> 0]

Num(n) == [t |-> "num", v |-> n]

\* A result object that the method's handler cannot extract a value from.
Obj == [t |-> "obj", v |-> 0]

Values == {Null, Num(1), Num(2), Obj}

\* Result of HashMap::get / Option::None, and of a missing store key.
None == "none"

Keys == {"k1"}

\* Strings the store may hold under a key; "junk" is not valid JSON.
StoreTexts == {"1", "2", "junk"}

\* Value::to_string / serde_json::to_string
to_string(val) ==
    CASE val.t = "null" -> "null"
      [] val.t = "num" /\ val.v = 1 -> "1"
      [] val.t = "num" /\ val.v = 2 -> "2"
      [] OTHER -> "{}"

\* serde_json::from_str::<Value>: [ok, value]
from_str(text) ==
    CASE text = "null" -> [ok |-> TRUE, value |-> Null]
      [] text = "1" -> [ok |-> TRUE, value |-> Num(1)]
      [] text = "2" -> [ok |-> TRUE, value |-> Num(2)]
      [] text = "{}" -> [ok |-> TRUE, value |-> Obj]
      [] OTHER -> [ok |-> FALSE, value |-> Null]

\* str::to_uppercase on the chain names of the model.
to_uppercase(s) ==
    CASE s \in {"eth", "Eth", "ETH"} -> "ETH"
      [] s \in {"bsc", "BSC"} -> "BSC"
      [] OTHER -> "XYZ"

\* ----------------------------------------------------------- configuration

\* The --endpoint arguments as the operator typed them: name, url.
RawEndpoints == {<<"eth", "url_eth">>, <<"BSC", "url_bsc">>}

\* cli::Cli::parse: the name -> url table handed to main (names uppercased).
endpoint_parser(raw) == <<to_uppercase(raw[1]), raw[2]>>

Endpoints == {endpoint_parser(raw) : raw \in RawEndpoints}

\* rpc_cache_handler::all_factories: the methods that have a handler.
HandlerMethods == {"m"}

\* main: app_state.chains, name -> ChainState{rpc_url, cache_entries}.
Chains ==
    [name \in {e[1] : e \in Endpoints} |->
        [rpc_url |-> (CHOOSE e \in Endpoints : e[1] = name)[2],
         cache_entries |-> HandlerMethods]]

\* RpcCacheHandler::extract_cache_key: "err", None, or the key.
extract_cache_key(method, params) ==
    CASE params = "p1" -> "k1"
      [] params = "latest" -> None
      [] OTHER -> "err"

\* RpcCacheHandler::extract_cache_value: [ok, can_cache, value].
extract_cache_value(method, result) ==
    CASE result.t = "obj" -> [ok |-> FALSE, can_cache |-> FALSE, value |-> ""]
      [] result.t = "null" -> [ok |-> TRUE, can_cache |-> FALSE, value |-> ""]
      [] OTHER -> [ok |-> TRUE, can_cache |-> TRUE, value |-> to_string(result)]

\* ------------------------------------------------------------------ inputs

\* Path segments of the calls: a lower-case spelling of a registered chain and
\* a name that is not registered.
Paths == {"eth", "xyz"}

\* Path segments of the routing specification: every spelling the model has.
AllPaths == {"eth", "Eth", "ETH", "bsc", "BSC", "xyz", "XYZ"}

Methods == {"m", "n"}

Params == {"p1", "latest", "bad"}

Req(i, m, p) == [id |-> i, method |-> m, params |-> p]

\* Request objects a client may send: under either id a call of the method
\* without handler and a call that yields a cache key; a second call of the
\* method without handler under id 1; a call whose params yield no key; a
\* call whose params the handler rejects; one object without a numeric id and
\* one without a string method.
Requests ==
    {Req(i, m, "p1") : i \in Ids, m \in Methods}
        \cup {Req(1, "n", "latest"), Req(1, "m", "latest"), Req(2, "m", "bad")}
        \cup {Req(NoId, "m", "p1"), Req(1, NoMethod, "p1")}

SeqsUpTo(S, n) == UNION {[1..k -> S] : k \in 0..n}

\* Bodies: a single request object, or an array of up to MaxBatch objects.
Bodies ==
    {[is_array |-> FALSE, reqs |-> <<r>>] : r \in Requests}
        \cup {[is_array |-> TRUE, reqs |-> s] : s \in SeqsUpTo(Requests, MaxBatch)}

\* Elements of an upstream batch response: id (or NoId), error flag, result.
Elems ==
    {[id |-> i, error |-> FALSE, result |-> r] : i \in Ids \cup {NoId}, r \in Values}
        \cup {[id |-> i, error |-> TRUE, result |-> Null] : i \in Ids \cup {NoId}}

\* How one store operation goes: the connection cannot be obtained, the
\* command fails, or it is applied.
StoreOutcomes == {"ok", "conn_err", "cmd_err"}

\* ------------------------------------------------------------------- state

VARIABLES
    store,              \* REDIS: key -> stored string, or None
    written,            \* history: key -> the string a write-back last stored
    extracted,          \* history: key -> the string a handler last extracted
    pc,                 \* per call: position in rpc_call
    path,               \* per call: the {chain} path segment
    body,               \* per call: the JSON body
    chain_state,        \* per call: the registry key the lookup returned
    idx,                \* per call: position of the first loop in requests
    ordered_id,         \* per call: Vec<u64>
    request_result,     \* per call: HashMap<u64, Value>
    uncached_requests,  \* per call: HashMap<u64, (method, params, cache_key)>
    cls,                \* per call, history: read_cache's outcome per request
    reads,              \* per call, history: store get attempts
    store_at_start,     \* per call, history: the store when the call arrived
    writes,             \* per call, history: store set attempts
    rpc,                \* per call, history: the upstream calls made
    nresp,              \* per call: elements of the upstream array consumed
    up_result,          \* per call, history: id -> result of the last element
                        \*   consumed that carries the id and no error
    up_error,           \* per call, history: ids of the error elements consumed
    status,             \* per call: how the call ended
    response            \* per call: the body of a 200 response

vars ==
    <<store, written, extracted, pc, path, body, chain_state, idx, ordered_id,
      request_result, uncached_requests, cls, reads, store_at_start, writes, rpc,
      nresp, up_result, up_error, status, response>>

\* An empty HashMap.
EmptyMap == <<>>

\* A variant that keeps the entry a key already has.
insert_keep_first(map, k, val) == map @@ (k :> val)

\* HashMap::insert
insert(map, k, val) == (k :> val) @@ map

\* HashMap::get(k).is_some()
contains_key(map, k) == k \in DOMAIN map

\* No response body (an error response, or none at all).
NoResponse == [shape |-> "none", items |-> <<>>]

\* The per-call state before a call arrives.
Idle ==
    [path |-> "", body |-> [is_array |-> TRUE, reqs |-> <<>>], chain_state |-> None]

\* The stores the service may find when it starts: any key may be absent,
\* hold a serialized result, or hold a string that is not JSON.
InitStores == [Keys -> {None, "1", "junk"}]

Init ==
    /\ store \in InitStores
    /\ written = [k \in Keys |-> None]
    /\ extracted = [k \in Keys |-> None]
    /\ pc = [c \in Calls |-> "idle"]
    /\ path = [c \in Calls |-> Idle.path]
    /\ body = [c \in Calls |-> Idle.body]
    /\ chain_state = [c \in Calls |-> None]
    /\ idx = [c \in Calls |-> 1]
    /\ ordered_id = [c \in Calls |-> <<>>]
    /\ request_result = [c \in Calls |-> EmptyMap]
    /\ uncached_requests = [c \in Calls |-> EmptyMap]
    /\ cls = [c \in Calls |-> <<>>]
    /\ reads = [c \in Calls |-> <<>>]
    /\ store_at_start = [c \in Calls |-> store]
    /\ writes = [c \in Calls |-> {}]
    /\ rpc = [c \in Calls |-> <<>>]
    /\ nresp = [c \in Calls |-> 0]
    /\ up_result = [c \in Calls |-> EmptyMap]
    /\ up_error = [c \in Calls |-> {}]
    /\ status = [c \in Calls |-> "none"]
    /\ response = [c \in Calls |-> NoResponse]

\* ---------------------------------------------------------------- rpc_call

\* A variant that looks the path segment up as it was sent.
chain_lookup_exact(p) == IF p \in DOMAIN Chains THEN p ELSE None

\* data.chains.get(&chain.to_uppercase()): the registry key, or None.
chain_lookup(p) ==
    IF to_uppercase(p) \in DOMAIN Chains THEN to_uppercase(p) ELSE None

\* body.as_array(), else vec![body]
requests_of(b) == b.reqs

\* request["id"].as_u64(): Some(x) as <<x>>, None as <<>>
as_u64(x) == IF x \in Nat THEN <<x>> ELSE <<>>

\* request["method"].as_str()
as_str(x) == IF x = NoMethod THEN None ELSE x

\* chain_state.cache_entries.get(method).is_some()
has_handler(name, method) == method \in Chains[name].cache_entries

\* A variant in which an error of extract_cache_key is fatal.
read_cache_key_error_fatal(method, params, st, so) ==
    LET cache_key == extract_cache_key(method, params)
        value == st[cache_key]
        parsed == from_str(value)
    IN  CASE cache_key = "err" ->
               [tag |-> "Panic", key |-> None, value |-> Null, read |-> FALSE]
          [] cache_key = None ->
               [tag |-> "NotAvailable", key |-> None, value |-> Null, read |-> FALSE]
          [] so # "ok" ->
               [tag |-> "Panic", key |-> cache_key, value |-> Null, read |-> TRUE]
          [] value = None ->
               [tag |-> "Missed", key |-> cache_key, value |-> Null, read |-> TRUE]
          [] ~parsed.ok ->
               [tag |-> "Err", key |-> cache_key, value |-> Null, read |-> TRUE]
          [] OTHER ->
               [tag |-> "Cached", key |-> cache_key, value |-> parsed.value,
                read |-> TRUE]

\* read_cache(handler, params), with the store as it is (st) and the way the
\* store answers (so).  tag is Err, NotAvailable, Cached or Missed, or Panic
\* for the unwrap() of a failed get_connection() or get().
read_cache(method, params, st, so) ==
    LET cache_key == extract_cache_key(method, params)
        value == st[cache_key]
        parsed == from_str(value)
    IN  CASE cache_key = "err" ->
               [tag |-> "Err", key |-> None, value |-> Null, read |-> FALSE]
          [] cache_key = None ->
               [tag |-> "NotAvailable", key |-> None, value |-> Null, read |-> FALSE]
          [] so # "ok" ->
               [tag |-> "Panic", key |-> cache_key, value |-> Null, read |-> TRUE]
          [] value = None ->
               [tag |-> "Missed", key |-> cache_key, value |-> Null, read |-> TRUE]
          [] ~parsed.ok ->
               [tag |-> "Err", key |-> cache_key, value |-> Null, read |-> TRUE]
          [] OTHER ->
               [tag |-> "Cached", key |-> cache_key, value |-> parsed.value,
                read |-> TRUE]

\* The entry of uncached_requests for request i: (method, params, cache_key),
\* and the position of the request it was made from.
Pending(method, params, cache_key, i) ==
    [method |-> method, params |-> params, cache_key |-> cache_key, src |-> i]

\* A variant that forwards a request although the cache answered it.
match_result_forward_hit(res) ==
    CASE res.tag \in {"Cached", "Missed"} -> res.key
      [] OTHER -> None

\* The arm of `match result` taken for read_cache's outcome: the cache key the
\* pending request carries, or "hit" when the request is served from the cache.
match_result(res) ==
    CASE res.tag = "Cached" -> "hit"
      [] res.tag = "Missed" -> res.key
      [] OTHER -> None

\* The call ends: an error response, or the task panics.
Finish(c, st) ==
    /\ pc' = [pc EXCEPT ![c] = "done"]
    /\ status' = [status EXCEPT ![c] = st]
    /\ response' = [response EXCEPT ![c] = NoResponse]

\* Lines 106-120: chain lookup, body normalisation, empty per-call tables.
ReceiveFrom(c, paths, bodies) ==
    /\ pc[c] = "idle"
    /\ \E p \in paths, b \in bodies :
        /\ path' = [path EXCEPT ![c] = p]
        /\ body' = [body EXCEPT ![c] = b]
        /\ chain_state' = [chain_state EXCEPT ![c] = chain_lookup(p)]
        /\ store_at_start' = [store_at_start EXCEPT ![c] = store]
        /\ IF chain_lookup(p) = None
           THEN Finish(c, "404")
           ELSE /\ pc' = [pc EXCEPT ![c] =
                            IF requests_of(b) = <<>> THEN "upstream" ELSE "classify"]
                /\ UNCHANGED <<status, response>>
    /\ UNCHANGED <<store, written, extracted, idx, ordered_id, request_result,
                   uncached_requests, cls, reads, writes, rpc, nresp, up_result, up_error>>

Receive(c) == ReceiveFrom(c, Paths, Bodies)

\* The ways the store may answer a step: a step that does not reach the store
\* has nothing to fail.
store_outcomes(reached) == IF reached THEN StoreOutcomes ELSE {"ok"}

\* Whether the first loop's next iteration gets as far as line 89.
reaches_store(c) ==
    LET request == requests_of(body[c])[idx[c]]
    IN  /\ as_u64(request.id) # <<>>
        /\ as_str(request.method) # None
        /\ has_handler(chain_state[c], request.method)
        /\ read_cache(request.method, request.params, store, "ok").read

\* Lines 122-161: one iteration of the first loop.
Classify(c) ==
    /\ pc[c] = "classify"
    /\ \E so \in store_outcomes(reaches_store(c)) :
        LET request == requests_of(body[c])[idx[c]]
            opt_id == as_u64(request.id)
            id == opt_id[1]
            method == as_str(request.method)
            params == request.params
            last == idx[c] = Len(requests_of(body[c]))
            handled == has_handler(chain_state[c], method)
            res == IF handled
                   THEN read_cache(method, params, store, so)
                   ELSE [tag |-> "NoHandler", key |-> None, value |-> Null,
                         read |-> FALSE]
            arm == match_result(res)
            note == [tag |-> res.tag, key |-> res.key, value |-> res.value,
                     written |-> IF res.read THEN written[res.key] ELSE None,
                     extracted |-> IF res.read THEN extracted[res.key] ELSE None]
        IN  IF opt_id = <<>> \/ method = None
            THEN /\ Finish(c, "400")
                 /\ UNCHANGED <<idx, ordered_id, request_result, uncached_requests,
                                cls, reads>>
            ELSE /\ ordered_id' = [ordered_id EXCEPT ![c] = Append(@, id)]
                 /\ reads' = [reads EXCEPT ![c] =
                                IF res.read
                                THEN Append(@, [key |-> res.key, outcome |-> so])
                                ELSE @]
                 /\ IF res.tag = "Panic"
                    THEN /\ Finish(c, "panic")
                         /\ UNCHANGED <<idx, request_result, uncached_requests, cls>>
                    ELSE /\ cls' = [cls EXCEPT ![c] = Append(@, note)]
                         /\ request_result' =
                              [request_result EXCEPT ![c] =
                                 IF arm = "hit" THEN insert(@, id, res.value) ELSE @]
                         /\ uncached_requests' =
                              [uncached_requests EXCEPT ![c] =
                                 IF arm = "hit" THEN @
                                 ELSE insert(@, id, Pending(method, params, arm, idx[c]))]
                         /\ idx' = [idx EXCEPT ![c] = @ + 1]
                         /\ pc' = [pc EXCEPT ![c] = IF last THEN "upstream" ELSE "classify"]
                         /\ UNCHANGED <<status, response>>
    /\ UNCHANGED <<store, written, extracted, path, body, chain_state,
                   store_at_start, writes, rpc, nresp, up_result, up_error>>

\* A variant that numbers the elements of the batch 1, 2, ... instead of
\* keeping the pending requests' ids.
request_body_renumbered(unc) ==
    {[id |-> Cardinality({j \in DOMAIN unc : j <= id}), method |-> unc[id].method,
      params |-> unc[id].params] : id \in DOMAIN unc}

\* A variant that forwards every pending request without its params.
request_body_without_params(unc) ==
    {[id |-> id, method |-> unc[id].method, params |-> "null"] : id \in DOMAIN unc}

\* Lines 164-176: the upstream batch, one element per pending request.  The
\* map's iteration order is unspecified, so the batch is kept as a set.
request_body(unc) ==
    {[id |-> id, method |-> unc[id].method, params |-> unc[id].params] :
        id \in DOMAIN unc}

\* What request_rpc yields: a transport or parse failure, a JSON value that is
\* no array, or an array.
RpcOutcomes == {"transport_err", "not_array", "array"}

\* Lines 163-191: the upstream call and the check that it answers an array.
CallUpstream(c) ==
    /\ pc[c] = "upstream"
    /\ uncached_requests[c] # EmptyMap
    /\ rpc' = [rpc EXCEPT ![c] =
                 Append(@, [url |-> Chains[chain_state[c]].rpc_url,
                            batch |-> request_body(uncached_requests[c]),
                            src |-> {uncached_requests[c][id].src :
                                        id \in DOMAIN uncached_requests[c]}])]
    /\ \E out \in RpcOutcomes :
        IF out = "array"
        THEN /\ pc' = [pc EXCEPT ![c] = "reconcile"]
             /\ UNCHANGED <<status, response>>
        ELSE Finish(c, "500")
    /\ UNCHANGED <<store, written, extracted, path, body, chain_state, idx,
                   ordered_id, request_result, uncached_requests, cls, reads,
                   store_at_start, writes, nresp, up_result, up_error>>

\* A variant that stores the extracted value in a form that is not JSON.
write_back_unserialized(st, key, value, so) ==
    CASE so = "conn_err" -> [end |-> "panic", store |-> st]
      [] so = "cmd_err" -> [end |-> "continue", store |-> st]
      [] OTHER -> [end |-> "continue", store |-> [st EXCEPT ![key] = "junk"]]

\* A variant that leaves a key alone once it holds a value: the first write
\* wins.
write_back_if_absent(st, key, value, so) ==
    CASE so = "conn_err" -> [end |-> "panic", store |-> st]
      [] so = "cmd_err" -> [end |-> "continue", store |-> st]
      [] st[key] # None -> [end |-> "continue", store |-> st]
      [] OTHER -> [end |-> "continue", store |-> [st EXCEPT ![key] = value]]

\* Lines 226-232: the write-back.  A failed get_connection() panics in
\* unwrap(); a failed set is dropped by `let _ =`.
write_back(st, key, value, so) ==
    CASE so = "conn_err" -> [end |-> "panic", store |-> st]
      [] so = "cmd_err" -> [end |-> "continue", store |-> st]
      [] OTHER -> [end |-> "continue", store |-> [st EXCEPT ![key] = value]]

\* A variant with per-item partial success: an element that carries an error
\* is skipped and the loop goes on.
reconcile_skip_error(unc, results, st, e, so) ==
    LET opt_id == as_u64(e.id)
        id == opt_id[1]
        entry == unc[id]
        stored == insert(results, id, e.result)
        extraction == extract_cache_value(entry.method, e.result)
        wb == write_back(st, entry.cache_key, extraction.value, so)
        quit(how) == [end |-> how, results |-> results, store |-> st, write |-> {}]
    IN  CASE opt_id = <<>> -> quit("400")
          [] ~contains_key(unc, id) -> quit("panic")
          [] e.error -> quit("continue")
          [] entry.cache_key = None ->
               [end |-> "continue", results |-> stored, store |-> st, write |-> {}]
          [] ~extraction.ok ->
               [end |-> "panic", results |-> stored, store |-> st, write |-> {}]
          [] ~extraction.can_cache ->
               [end |-> "continue", results |-> stored, store |-> st, write |-> {}]
          [] OTHER ->
               [end |-> wb.end, results |-> stored, store |-> wb.store,
                write |-> {[key |-> entry.cache_key, value |-> extraction.value,
                            outcome |-> so]}]

\* A variant that writes back whatever the handler extracted, cacheable or
\* not.
reconcile_write_uncacheable(unc, results, st, e, so) ==
    LET opt_id == as_u64(e.id)
        id == opt_id[1]
        entry == unc[id]
        stored == insert(results, id, e.result)
        extraction == extract_cache_value(entry.method, e.result)
        wb == write_back(st, entry.cache_key, extraction.value, so)
        quit(how) == [end |-> how, results |-> results, store |-> st, write |-> {}]
    IN  CASE opt_id = <<>> -> quit("400")
          [] ~contains_key(unc, id) -> quit("panic")
          [] e.error -> quit("500")
          [] entry.cache_key = None ->
               [end |-> "continue", results |-> stored, store |-> st, write |-> {}]
          [] ~extraction.ok ->
               [end |-> "panic", results |-> stored, store |-> st, write |-> {}]
          [] OTHER ->
               [end |-> wb.end, results |-> stored, store |-> wb.store,
                write |-> {[key |-> entry.cache_key, value |-> extraction.value,
                            outcome |-> so]}]

\* Lines 194-232: one iteration of the second loop on element e.  end says
\* how the iteration leaves the loop; write is the set(key, value) attempted.
reconcile(unc, results, st, e, so) ==
    LET opt_id == as_u64(e.id)
        id == opt_id[1]
        entry == unc[id]
        stored == insert(results, id, e.result)
        extraction == extract_cache_value(entry.method, e.result)
        wb == write_back(st, entry.cache_key, extraction.value, so)
        quit(how) == [end |-> how, results |-> results, store |-> st, write |-> {}]
    IN  CASE opt_id = <<>> -> quit("400")
          [] ~contains_key(unc, id) -> quit("panic")
          [] e.error -> quit("500")
          [] entry.cache_key = None ->
               [end |-> "continue", results |-> stored, store |-> st, write |-> {}]
          [] ~extraction.ok ->
               [end |-> "panic", results |-> stored, store |-> st, write |-> {}]
          [] ~extraction.can_cache ->
               [end |-> "continue", results |-> stored, store |-> st, write |-> {}]
          [] OTHER ->
               [end |-> wb.end, results |-> stored, store |-> wb.store,
                write |-> {[key |-> entry.cache_key, value |-> extraction.value,
                            outcome |-> so]}]

\* Lines 193-233: the loop consumes the next element of the upstream array,
\* an element of elems.
ReconcileFrom(c, elems) ==
    /\ pc[c] = "reconcile"
    /\ nresp[c] < MaxResp
    /\ \E e \in elems :
       \E so \in store_outcomes(
                 reconcile(uncached_requests[c], request_result[c], store, e, "ok").write
                     # {}) :
        LET step == reconcile(uncached_requests[c], request_result[c], store, e, so)
            applied == {w \in step.write : w.outcome = "ok"}
        IN  /\ request_result' = [request_result EXCEPT ![c] = step.results]
            /\ store' = step.store
            /\ writes' = [writes EXCEPT ![c] = @ \cup step.write]
            /\ written' = [k \in Keys |->
                             IF \E w \in applied : w.key = k
                             THEN (CHOOSE w \in applied : w.key = k).value
                             ELSE written[k]]
            /\ extracted' = [k \in Keys |->
                               IF \E w \in step.write : w.key = k
                               THEN (CHOOSE w \in step.write : w.key = k).value
                               ELSE extracted[k]]
            /\ nresp' = [nresp EXCEPT ![c] = @ + 1]
            /\ up_error' = [up_error EXCEPT ![c] = IF e.error THEN @ \cup {e.id} ELSE @]
            /\ up_result' = [up_result EXCEPT ![c] =
                               IF e.error \/ as_u64(e.id) = <<>> THEN @
                               ELSE insert(@, e.id, e.result)]
            /\ IF step.end = "continue"
               THEN UNCHANGED <<pc, status, response>>
               ELSE Finish(c, step.end)
    /\ UNCHANGED <<path, body, chain_state, idx, ordered_id, uncached_requests,
                   cls, reads, store_at_start, rpc>>

Reconcile(c) == ReconcileFrom(c, Elems)

\* The ids of a map in increasing order.
RECURSIVE sorted_ids(_)
sorted_ids(ids) ==
    IF ids = {} THEN <<>>
    ELSE LET m == CHOOSE x \in ids : \A y \in ids : x <= y
         IN  <<m>> \o sorted_ids(ids \ {m})

\* A variant that walks the result table instead of ordered_id.
response_items_by_table(ordered, results) ==
    LET ids == sorted_ids(DOMAIN results)
    IN  [i \in 1..Len(ids) |-> [id |-> ids[i], result |-> results[ids[i]]]]

\* Lines 236-245: one {id, result} per id of ordered_id, in that order.
response_items(ordered, results) ==
    [i \in 1..Len(ordered) |-> [id |-> ordered[i], result |-> results[ordered[i]]]]

\* Lines 247-251: a response of exactly one element is unwrapped.
response_shape(items) == IF Len(items) = 1 THEN "object" ELSE "array"

\* Lines 236-251: response assembly, reached when the pending set is empty
\* (line 163) or when the upstream array has no further element (line 233);
\* a missing result panics.
Assemble(c) ==
    /\ \/ pc[c] = "upstream" /\ uncached_requests[c] = EmptyMap
       \/ pc[c] = "reconcile"
    /\ IF \E i \in 1..Len(ordered_id[c]) :
             ~contains_key(request_result[c], ordered_id[c][i])
       THEN Finish(c, "panic")
       ELSE LET items == response_items(ordered_id[c], request_result[c])
            IN  /\ pc' = [pc EXCEPT ![c] = "done"]
                /\ status' = [status EXCEPT ![c] = "200"]
                /\ response' = [response EXCEPT ![c] =
                                  [shape |-> response_shape(items), items |-> items]]
    /\ UNCHANGED <<store, written, extracted, path, body, chain_state, idx,
                   ordered_id, request_result, uncached_requests, cls, reads,
                   store_at_start, writes, rpc, nresp, up_result, up_error>>

\* The response is out and the call's own structures are dropped.
Return(c) ==
    /\ pc[c] = "done"
    /\ pc' = [pc EXCEPT ![c] = "idle"]
    /\ path' = [path EXCEPT ![c] = Idle.path]
    /\ body' = [body EXCEPT ![c] = Idle.body]
    /\ chain_state' = [chain_state EXCEPT ![c] = Idle.chain_state]
    /\ idx' = [idx EXCEPT ![c] = 1]
    /\ ordered_id' = [ordered_id EXCEPT ![c] = <<>>]
    /\ request_result' = [request_result EXCEPT ![c] = EmptyMap]
    /\ uncached_requests' = [uncached_requests EXCEPT ![c] = EmptyMap]
    /\ cls' = [cls EXCEPT ![c] = <<>>]
    /\ reads' = [reads EXCEPT ![c] = <<>>]
    /\ store_at_start' = [store_at_start EXCEPT ![c] = store]
    /\ writes' = [writes EXCEPT ![c] = {}]
    /\ rpc' = [rpc EXCEPT ![c] = <<>>]
    /\ nresp' = [nresp EXCEPT ![c] = 0]
    /\ up_result' = [up_result EXCEPT ![c] = EmptyMap]
    /\ up_error' = [up_error EXCEPT ![c] = {}]
    /\ status' = [status EXCEPT ![c] = "none"]
    /\ response' = [response EXCEPT ![c] = NoResponse]
    /\ UNCHANGED <<store, written, extracted>>

\* The calls the sequential specification runs: one at a time.
SeqCalls == {1}

Next ==
    \E c \in SeqCalls :
        \/ Receive(c)
        \/ Classify(c)
        \/ CallUpstream(c)
        \/ Reconcile(c)
        \/ Assemble(c)
        \/ Return(c)

Spec == Init /\ [][Next]_vars

\* The routing specification: calls of at most one request, under every
\* spelling of the path segment.
RouteBodies == {b \in Bodies : Len(b.reqs) <= 1}

ReceiveAnyPath(c) == ReceiveFrom(c, AllPaths, RouteBodies)

NextRoute ==
    \E c \in SeqCalls :
        \/ ReceiveAnyPath(c)
        \/ Classify(c)
        \/ CallUpstream(c)
        \/ Reconcile(c)
        \/ Assemble(c)
        \/ Return(c)

SpecRoute == Init /\ [][NextRoute]_vars

\* The concurrent specification: two handling tasks in flight at once, their
\* steps interleaved.  Each serves one call on the chain eth: a single request
\* that yields a cache key, or a batch of a request without handler and that
\* request; upstream answers with results 1 or 2 under either id, or with an
\* error.
ConcBodies ==
    {[is_array |-> FALSE, reqs |-> <<Req(1, "m", "p1")>>],
     [is_array |-> TRUE, reqs |-> <<Req(2, "n", "p1"), Req(1, "m", "p1")>>]}

ConcElems ==
    {[id |-> i, error |-> FALSE, result |-> Num(n)] : i \in Ids, n \in {1, 2}}
        \cup {[id |-> 1, error |-> TRUE, result |-> Null]}

ReceiveConc(c) == ReceiveFrom(c, {"eth"}, ConcBodies)

ReconcileConc(c) == ReconcileFrom(c, ConcElems)

NextConc ==
    \E c \in Calls :
        \/ ReceiveConc(c)
        \/ Classify(c)
        \/ CallUpstream(c)
        \/ ReconcileConc(c)
        \/ Assemble(c)

SpecConc == Init /\ [][NextConc]_vars

\* ------------------------------------------------------------------ claims

\* The requests of call c, and whether their ids are pairwise distinct.
reqs(c) == requests_of(body[c])

distinct_ids(c) ==
    \A i, j \in 1..Len(reqs(c)) : i # j => reqs(c)[i].id # reqs(c)[j].id

succeeded(c) == pc[c] = "done" /\ status[c] = "200"

\* C1: in a successful call whose request ids are pairwise distinct, the i-th
\* element of the response carries the id of the i-th request and that
\* request's own result: the cached value when read_cache answered Cached,
\* else the result upstream gave for that id.
C1_ResponseFollowsRequests ==
    \A c \in Calls :
        (succeeded(c) /\ distinct_ids(c)) =>
            /\ Len(response[c].items) = Len(reqs(c))
            /\ \A i \in 1..Len(reqs(c)) :
                 /\ response[c].items[i].id = reqs(c)[i].id
                 /\ response[c].items[i].result =
                      IF cls[c][i].tag = "Cached"
                      THEN cls[c][i].value
                      ELSE up_result[c][reqs(c)[i].id]

\* C1, witness: a successful call of two requests, the first forwarded under
\* id 2 and the second served from the cache under id 1, with different
\* results.
C1_Witness ==
    \E c \in Calls :
        /\ succeeded(c)
        /\ Len(reqs(c)) = 2
        /\ reqs(c)[1].id = 2 /\ reqs(c)[2].id = 1
        /\ cls[c][1].tag = "NoHandler" /\ cls[c][2].tag = "Cached"
        /\ response[c].items[1].result # response[c].items[2].result

\* Every request of call c has been classified and read_cache answered Cached
\* for each.
all_hits(c) ==
    /\ pc[c] \notin {"idle", "classify"}
    /\ chain_state[c] # None
    /\ Len(cls[c]) = Len(reqs(c))
    /\ \A i \in 1..Len(cls[c]) : cls[c][i].tag = "Cached"

\* C2: when every request of a call is a cache hit the call makes no upstream
\* call and no store write and can only end with status 200; and no upstream
\* batch ever holds an element made from a request that was a hit.
C2_HitsStayLocal ==
    \A c \in Calls :
        /\ all_hits(c) =>
              /\ rpc[c] = <<>>
              /\ writes[c] = {}
              /\ pc[c] \in {"upstream", "done"}
              /\ pc[c] = "done" => status[c] = "200"
        /\ \A k \in 1..Len(rpc[c]) : \A i \in 1..Len(cls[c]) :
              cls[c][i].tag = "Cached" => i \notin rpc[c][k].src

\* C2, witness: a call of two requests, both hits, has ended.
C2_Witness ==
    \E c \in Calls : all_hits(c) /\ Len(reqs(c)) = 2 /\ pc[c] = "done"

\* C3, as claimed: whenever an element of the upstream response carries an
\* error the call ends with status 500 and no response body.
C3_Original ==
    \A c \in Calls :
        (pc[c] = "done" /\ up_error[c] # {}) =>
            status[c] = "500" /\ response[c] = NoResponse

\* C3, amended: an element of the upstream response that carries an error
\* ends the call at once, never with a success and never with a response body;
\* the status is 500 when the element carries the id of a pending request, 400
\* when it carries no numeric id, and the task panics when its id is numeric
\* but not pending.
C3_ErrorFailsCall ==
    \A c \in Calls : \A i \in up_error[c] :
        /\ pc[c] = "done"
        /\ response[c] = NoResponse
        /\ status[c] =
             CASE as_u64(i) = <<>> -> "400"
               [] ~contains_key(uncached_requests[c], i) -> "panic"
               [] OTHER -> "500"

\* C3, witness: a call with a cache hit and two pending requests, one of them
\* already answered by upstream, ends with 500 on the error element of the
\* other.
C3_Witness ==
    \E c \in Calls :
        /\ pc[c] = "done" /\ status[c] = "500"
        /\ up_error[c] # {}
        /\ DOMAIN up_result[c] # {}
        /\ \E i \in 1..Len(cls[c]) : cls[c][i].tag = "Cached"

\* A request object without a numeric id or without a string method.
invalid(r) == as_u64(r.id) = <<>> \/ as_str(r.method) = None

\* C4, as claimed: a call on a registered chain whose body holds an invalid
\* request object ends with status 400 and makes no upstream call.
C4_Original ==
    \A c \in Calls :
        (/\ chain_state[c] # None
         /\ \E i \in 1..Len(reqs(c)) : invalid(reqs(c)[i])) =>
            /\ rpc[c] = <<>>
            /\ pc[c] = "done" => status[c] = "400"

\* Request i of call c is answered from the store with val: read_cache found
\* it, it is in no upstream batch, and a successful response carries val.
served_from_store(c, i, val) ==
    /\ cls[c][i].tag = "Cached"
    /\ cls[c][i].value = val
    /\ \A id \in DOMAIN uncached_requests[c] : uncached_requests[c][id].src # i
    /\ \A k \in 1..Len(rpc[c]) : i \notin rpc[c][k].src

\* C5, as claimed: once a handler has extracted (true, v) for the result of a
\* request that missed under key k, every later request that yields k is
\* served the value of v from the store and is not sent upstream.
C5_Original ==
    \A c \in Calls : \A i \in 1..Len(cls[c]) :
        cls[c][i].extracted # None =>
            /\ served_from_store(c, i, from_str(cls[c][i].extracted).value)
            /\ succeeded(c) =>
                  response[c].items[i].result = from_str(cls[c][i].extracted).value

\* C5, amended: once the write-back set(k, v) of such a request has been
\* applied by the store, every later store read for a request that yields k
\* classifies the request as a hit with the JSON value of v and keeps it out
\* of the upstream batch, and a successful call with pairwise-distinct ids
\* returns that value for it; every repetition of the lookup does the same.
C5_RoundTrip ==
    \A c \in Calls : \A i \in 1..Len(cls[c]) :
        cls[c][i].written # None =>
            /\ from_str(cls[c][i].written).ok
            /\ served_from_store(c, i, from_str(cls[c][i].written).value)
            /\ (succeeded(c) /\ distinct_ids(c)) =>
                  response[c].items[i].result = from_str(cls[c][i].written).value

\* C5, witness: a successful call whose two requests yield the key of an
\* earlier write-back; both are served the written value.
C5_Witness ==
    \E c \in Calls :
        /\ succeeded(c) /\ distinct_ids(c)
        /\ Len(reqs(c)) = 2
        /\ \A i \in 1..2 : cls[c][i].written = "2"
        /\ \A i \in 1..2 : response[c].items[i].result = Num(2)

\* C6, as claimed: a successful response is an array of one object per request
\* when the body was an array, and a single object when the body was a single
\* object.
C6_Original ==
    \A c \in Calls :
        succeeded(c) =>
            /\ Len(response[c].items) = Len(reqs(c))
            /\ response[c].shape = IF body[c].is_array THEN "array" ELSE "object"

\* No request of call c names a method that has a handler.
no_handlers(c) ==
    /\ pc[c] # "idle"
    /\ chain_state[c] # None
    /\ \A i \in 1..Len(reqs(c)) :
         ~has_handler(chain_state[c], as_str(reqs(c)[i].method))

\* Request i of call c is in the call's upstream batch as the client sent it.
forwarded(c, i) ==
    /\ Len(rpc[c]) = 1
    /\ [id |-> reqs(c)[i].id, method |-> reqs(c)[i].method,
        params |-> reqs(c)[i].params] \in rpc[c][1].batch

\* Call c is past the point of its upstream call.
past_upstream(c) == pc[c] \in {"reconcile", "done"}

\* No later request of call c carries the id of request i.
last_of_id(c, i) ==
    \A j \in (i + 1)..Len(reqs(c)) : reqs(c)[j].id # reqs(c)[i].id

\* The call reads nothing from the store, writes nothing, and leaves it as
\* it found it.
store_untouched(c) ==
    reads[c] = <<>> /\ writes[c] = {} /\ store = store_at_start[c]

\* C7, as claimed: when no request of a call has a handler, every request is
\* forwarded with its id, method and params, and the store is neither read
\* nor written.
C7_Original ==
    \A c \in Calls :
        (no_handlers(c) /\ \A i \in 1..Len(reqs(c)) : ~invalid(reqs(c)[i])) =>
            /\ store_untouched(c)
            /\ past_upstream(c) => \A i \in 1..Len(reqs(c)) : forwarded(c, i)

\* C7, amended: when no request of a call has a handler the store is neither
\* read nor written; and when all requests are valid, every request whose id
\* no later request of the call carries is forwarded with its id, method and
\* params (all requests, when the ids are pairwise distinct), and nothing else
\* is.
C7_NoHandlerForwarded ==
    \A c \in Calls :
        no_handlers(c) =>
            /\ store_untouched(c)
            /\ (/\ past_upstream(c)
                /\ Len(reqs(c)) > 0
                /\ \A i \in 1..Len(reqs(c)) : ~invalid(reqs(c)[i])) =>
                  /\ Len(rpc[c]) = 1
                  /\ \A i \in 1..Len(reqs(c)) : last_of_id(c, i) => forwarded(c, i)
                  /\ distinct_ids(c) => \A i \in 1..Len(reqs(c)) : forwarded(c, i)
                  /\ \A e \in rpc[c][1].batch :
                       \E i \in 1..Len(reqs(c)) :
                          /\ e.id = reqs(c)[i].id
                          /\ e.method = reqs(c)[i].method
                          /\ e.params = reqs(c)[i].params

\* C7, witness: a call of two requests without handler and with different
\* ids has made its upstream call.
C7_Witness ==
    \E c \in Calls :
        /\ no_handlers(c) /\ past_upstream(c) /\ distinct_ids(c)
        /\ Len(reqs(c)) = 2
        /\ \A i \in 1..2 : forwarded(c, i)

\* Two chain names are the same but for the case of their letters.
same_name(a, b) ==
    \E class \in {{"eth", "Eth", "ETH"}, {"bsc", "BSC"}, {"xyz", "XYZ"}} :
        a \in class /\ b \in class

\* C8: a call whose path segment is, in any casing, the name of an endpoint
\* is served by that endpoint's chain (its upstream calls go to that
\* endpoint's url); a path that is no endpoint's name in any casing ends with
\* 404 without a store access or an upstream call.
C8_CaseInsensitiveRouting ==
    \A c \in Calls :
        pc[c] # "idle" =>
            LET named == {raw \in RawEndpoints : same_name(raw[1], path[c])}
            IN  IF named = {}
                THEN /\ pc[c] = "done" /\ status[c] = "404"
                     /\ store_untouched(c)
                     /\ rpc[c] = <<>>
                ELSE /\ status[c] # "404"
                     /\ chain_state[c] # None
                     /\ \A raw \in named :
                          /\ Chains[chain_state[c]].rpc_url = raw[2]
                          /\ \A k \in 1..Len(rpc[c]) : rpc[c][k].url = raw[2]

\* C8, witness: a call under the mixed-case path Eth has been answered from
\* the upstream of the endpoint eth.
C8_Witness ==
    \E c \in Calls :
        /\ succeeded(c)
        /\ path[c] = "Eth"
        /\ Len(rpc[c]) = 1 /\ rpc[c][1].url = "url_eth"

\* C9, as claimed: a store read that fails (no connection, or a failed get)
\* does not abort the call; the request is classified and the call goes on.
C9_Original ==
    \A c \in Calls :
        (\E j \in 1..Len(reads[c]) : reads[c][j].outcome # "ok") =>
            /\ status[c] # "panic"
            /\ Len(cls[c]) = Len(ordered_id[c])

\* C10, as claimed: a stored value that is not JSON makes the call fail with
\* status 500, and the request is never queued for upstream in its place.
C10_Original ==
    \A c \in Calls : \A i \in 1..Len(cls[c]) :
        (cls[c][i].tag = "Err" /\ cls[c][i].key # None) =>
            /\ pc[c] = "done" /\ status[c] = "500"
            /\ \A id \in DOMAIN uncached_requests[c] : uncached_requests[c][id].src # i

\* The numeric ids of the upstream elements call c has consumed.
consumed_ids(c) == DOMAIN up_result[c] \cup {i \in up_error[c] : as_u64(i) # <<>>}

\* C11, as claimed: an upstream element whose id is not in the pending set
\* ends the call with status 400, never with a crash and never with a success.
C11_Original ==
    \A c \in Calls : \A i \in consumed_ids(c) :
        ~contains_key(uncached_requests[c], i) =>
            pc[c] = "done" /\ status[c] = "400"

\* C12, as claimed: a store failure during write-back (no connection, or a
\* failed set) does not end the call: the second loop goes on as it would
\* after a write that succeeded.
C12_Original ==
    [][\A c \in Calls :
          (\E w \in writes'[c] \ writes[c] : w.outcome # "ok") =>
              pc'[c] = "reconcile" /\ status'[c] = "none"]_vars

\* C13, as claimed: a call that ends in a client error (status 400 or 404)
\* leaves the store as it was when the call arrived.
C13_Original ==
    \A c \in Calls :
        (pc[c] = "done" /\ status[c] \in {"400", "404"}) =>
            store = store_at_start[c]

\* C14, as claimed: in a call whose body holds an invalid request object no
\* cache key is extracted and no store read is made for any request, the
\* valid requests before the invalid one included.
C14_Original ==
    \A c \in Calls :
        (/\ chain_state[c] # None
         /\ \E i \in 1..Len(reqs(c)) : invalid(reqs(c)[i])) =>
            /\ reads[c] = <<>>
            /\ \A i \in 1..Len(cls[c]) : cls[c][i].tag = "NoHandler"

\* C15, as claimed: whenever a call reaches response assembly (the pending set
\* was empty, or the upstream array has been consumed without an error
\* element), the result table holds an entry for every id of ordered_id and
\* the call answers 200.
C15_Original ==
    [][\A c \in Calls :
          (/\ pc[c] \in {"upstream", "reconcile"}
           /\ pc'[c] = "done"
           /\ rpc'[c] = rpc[c]
           /\ nresp'[c] = nresp[c]) =>
              /\ \A i \in 1..Len(ordered_id[c]) :
                   contains_key(request_result[c], ordered_id[c][i])
              /\ status'[c] = "200"]_vars

\* C16: every set(k, v) a call attempts is made for a request of the call
\* that read_cache classified Missed(k), in the step that consumes a
\* non-error upstream element carrying that request's id and a result r for
\* which the handler of the request's method extracts (true, v); so a call
\* without such a request attempts no write, and a result that is not
\* cacheable is never written.
C16_WriteOnlyForMiss ==
    [][\A c \in Calls : \A w \in writes'[c] \ writes[c] :
          /\ nresp'[c] = nresp[c] + 1
          /\ up_error'[c] = up_error[c]
          /\ \E i \in 1..Len(cls[c]) :
               LET id == reqs(c)[i].id
               IN  /\ cls[c][i].tag = "Missed"
                   /\ cls[c][i].key = w.key
                   /\ id \in DOMAIN up_result'[c]
                   /\ LET x == extract_cache_value(reqs(c)[i].method,
                                                   up_result'[c][id])
                      IN  x.ok /\ x.can_cache /\ x.value = w.value]_vars

\* C16, witness: a call of a request without cache key and a request that
\* missed has consumed an upstream element for each, and the store holds the
\* value written back for the miss.
C16_Witness ==
    \E c \in Calls :
        /\ Len(cls[c]) = 2
        /\ cls[c][1].tag = "NotAvailable" /\ cls[c][2].tag = "Missed"
        /\ DOMAIN up_result[c] = {reqs(c)[1].id, reqs(c)[2].id}
        /\ \E w \in writes[c] :
             /\ w.outcome = "ok"
             /\ w.key = cls[c][2].key
             /\ store[w.key] = w.value

\* The element the upstream batch holds for request i of call c.
batch_element(c, i) ==
    [id |-> reqs(c)[i].id, method |-> reqs(c)[i].method, params |-> reqs(c)[i].params]

\* C17: a call makes at most one upstream call, and only once every request
\* has been classified; the batch holds exactly one element per entry of the
\* pending set, each with the id, method and params of the request the entry
\* was made from, and none made from a cache hit; and a call with pending
\* requests answers 200 only after its upstream call.
C17_OneUpstreamBatch ==
    \A c \in Calls :
        /\ Len(rpc[c]) <= 1
        /\ pc[c] \in {"idle", "classify", "upstream"} => rpc[c] = <<>>
        /\ Len(rpc[c]) = 1 =>
             /\ Len(cls[c]) = Len(reqs(c))
             /\ rpc[c][1].src =
                  {uncached_requests[c][id].src : id \in DOMAIN uncached_requests[c]}
             /\ rpc[c][1].batch = {batch_element(c, i) : i \in rpc[c][1].src}
             /\ Cardinality(rpc[c][1].batch) = Cardinality(DOMAIN uncached_requests[c])
             /\ \A i \in rpc[c][1].src : cls[c][i].tag # "Cached"
             /\ \A i \in 1..Len(reqs(c)) :
                  (cls[c][i].tag # "Cached" /\ last_of_id(c, i)) => i \in rpc[c][1].src
        /\ (succeeded(c) /\ uncached_requests[c] # EmptyMap) => Len(rpc[c]) = 1

\* C17, witness: a successful call of a cache hit and a forwarded request
\* under id 2 has made its one upstream call with one element.
C17_Witness ==
    \E c \in Calls :
        /\ succeeded(c)
        /\ Len(reqs(c)) = 2
        /\ cls[c][1].tag = "Cached" /\ cls[c][2].tag = "NoHandler"
        /\ reqs(c)[2].id = 2
        /\ Len(rpc[c]) = 1
        /\ rpc[c][1].batch = {batch_element(c, 2)}

\* Request i of call c is valid, its method has a handler, and the handler's
\* extract_cache_key fails on its params or yields no key.
keyless(c, i) ==
    /\ chain_state[c] # None
    /\ ~invalid(reqs(c)[i])
    /\ has_handler(chain_state[c], reqs(c)[i].method)
    /\ extract_cache_key(reqs(c)[i].method, reqs(c)[i].params) \in {"err", None}

\* The pending entry a keyless request i of call c is queued as.
keyless_entry(c, i) ==
    Pending(reqs(c)[i].method, reqs(c)[i].params, None, i)

per_call(c) ==
    <<pc[c], path[c], body[c], chain_state[c], idx[c], ordered_id[c],
      request_result[c], uncached_requests[c], cls[c], reads[c], writes[c],
      rpc[c], nresp[c], up_result[c], up_error[c], status[c], response[c]>>

\* The results call c itself obtained for an id: the values of its own cache
\* hits under the id and the result its own upstream response gave for it.
own_results(c, id) ==
    {cls[c][j].value : j \in {j \in 1..Len(cls[c]) :
                                 reqs(c)[j].id = id /\ cls[c][j].tag = "Cached"}}
        \cup {up_result[c][i] : i \in DOMAIN up_result[c] \cap {id}}

\* C19: with two calls in flight, under every interleaving of their steps, a
\* step of one call changes nothing the other call owns; a successful
\* response holds the call's own request ids in the call's own order, each
\* with a result the call itself obtained for that id; and a key that has
\* been written holds the value of the write-back applied last.
C19_CallsIsolated ==
    /\ [][\A c \in Calls :
            per_call(c)' # per_call(c) =>
                \A d \in Calls \ {c} : per_call(d)' = per_call(d)]_vars
    /\ [](\A c \in Calls :
            succeeded(c) =>
                /\ Len(response[c].items) = Len(reqs(c))
                /\ \A i \in 1..Len(reqs(c)) :
                     /\ response[c].items[i].id = reqs(c)[i].id
                     /\ response[c].items[i].result \in own_results(c, reqs(c)[i].id))
    /\ [](\A k \in Keys : written[k] # None => store[k] = written[k])

\* C19, witness: two calls that both missed the same key (each read the
\* store before the other wrote) have both succeeded with different results
\* and both written the key; the store holds the first call's value, written
\* last.
C19_Witness ==
    /\ succeeded(1) /\ succeeded(2)
    /\ Len(reqs(1)) = 2 /\ Len(reqs(2)) = 1
    /\ cls[1][2].tag = "Missed" /\ cls[2][1].tag = "Missed"
    /\ response[1].items[2].result = Num(1)
    /\ response[2].items[1].result = Num(2)
    /\ \E w \in writes[1] : w.outcome = "ok" /\ w.value = "1"
    /\ \E w \in writes[2] : w.outcome = "ok" /\ w.value = "2"
    /\ written["k1"] = "1" /\ store["k1"] = "1"

\* The positions of the requests of call c that carry id.
positions(c, id) == {i \in 1..Len(reqs(c)) : reqs(c)[i].id = id}

\* The last position in a non-empty set of positions.
last_position(ps) == CHOOSE i \in ps : \A j \in ps : j <= i

\* C20: per id, an upstream batch holds at most one element, made from the
\* last request with that id that was not a cache hit; a successful response
\* has one element per request, and all elements with one id carry the same
\* result: the result of the last upstream element consumed for the id, or,
\* when upstream gave none, the value of the last cache hit under the id.
C20_OneEntryPerId ==
    \A c \in Calls :
        /\ \A k \in 1..Len(rpc[c]) : \A e \in rpc[c][k].batch :
             LET sent == {i \in positions(c, e.id) : i <= Len(cls[c])
                                                     /\ cls[c][i].tag # "Cached"}
             IN  /\ \A f \in rpc[c][k].batch : f.id = e.id => f = e
                 /\ sent # {}
                 /\ e = batch_element(c, last_position(sent))
        /\ succeeded(c) =>
             /\ Len(response[c].items) = Len(reqs(c))
             /\ \A i \in 1..Len(reqs(c)) :
                  LET id == reqs(c)[i].id
                      hits == {j \in positions(c, id) : cls[c][j].tag = "Cached"}
                  IN  /\ response[c].items[i].id = id
                      /\ response[c].items[i].result =
                           IF id \in DOMAIN up_result[c]
                           THEN up_result[c][id]
                           ELSE cls[c][last_position(hits)].value

\* C20, witness: a successful call of two requests under one id, the first a
\* cache hit and the second forwarded; both response elements carry the
\* upstream result, which differs from the cached value.
C20_Witness ==
    \E c \in Calls :
        /\ succeeded(c)
        /\ Len(reqs(c)) = 2
        /\ reqs(c)[1].id = reqs(c)[2].id
        /\ cls[c][1].tag = "Cached" /\ cls[c][2].tag = "NoHandler"
        /\ response[c].items[1].result = response[c].items[2].result
        /\ response[c].items[1].result # cls[c][1].value

====
